---- MODULE Spec2Model ----
(***************************************************************************)
(* Model of Passenger::ServerKit::AcceptLoadBalancer                       *)
(* (ext/common/ServerKit/AcceptLoadBalancer.h).                            *)
(*                                                                         *)
(* Two threads are modelled: the controller, which calls listen(),         *)
(* start() and shutdown() and fills the public servers vector, and the     *)
(* "Load balancer" thread that runs mainLoop().  The kernel is modelled by *)
(* the backlog of every listening socket, by the exit pipe's byte count    *)
(* and by the results of poll(), accept4(), accept() and setNonBlocking(). *)
(* A connection is identified by its arrival number; a listening socket by *)
(* the number of the listen() call that registered it.                     *)
(***************************************************************************)
EXTENDS Integers, Sequences, FiniteSets, TLC

(* ---- program constants ---- *)
ACCEPT_BURST_COUNT == 16
SERVER_KIT_MAX_SERVER_ENDPOINTS == 4
NEndpointsBits == 2
NewClientCountBits == 4

(* ---- bounds of the model ---- *)
MaxServers == 2
MaxListenCalls == 2
MaxArrivalEvents == 2
MaxFaults == 1
MaxFaultAt == 1
MaxStarts == 2

\* sizes of one arrival event: a single connection, or a full burst
ArrivalBatches == {1, ACCEPT_BURST_COUNT}

VARIABLES
    \* the object's fields
    endpoints, revents, newClients, nEndpoints, accept4Available, quit,
    newClientCount, nextServer, exitPipe, thread, servers,
    \* the loop thread: its position and mainLoop's i
    pc, scanIdx,
    \* the controller thread
    ctl,
    \* the kernel and the workers' event loops
    pending, queues, accept4Errno,
    \* budgets that bound the environment
    listenCalls, arrivals, nArrived, faults, starts,
    \* history, read only by the properties
    hist

vars == << endpoints, revents, newClients, nEndpoints, accept4Available, quit,
           newClientCount, nextServer, exitPipe, thread, servers,
           pc, scanIdx, ctl, pending, queues, accept4Errno,
           listenCalls, arrivals, nArrived, faults, starts, hist >>

objVars == << endpoints, revents, newClients, nEndpoints, accept4Available, quit,
              newClientCount, nextServer >>
envBudget == << listenCalls, arrivals, nArrived, faults, starts, accept4Errno >>

(* ---- helpers ---- *)

\* assignment to an unsigned bit-field of the given width
BitField(v, bits) == v % (2 ^ bits)

\* newClientCount = i  (unsigned int newClientCount: 4)
StoreNewClientCount(i) == BitField(i, NewClientCountBits)

\* nEndpoints++  (unsigned int nEndpoints: 2)
IncrNEndpoints(n) == BitField(n + 1, NEndpointsBits)

\* a distributor that forgets to advance the cursor
AdvanceCursorStuck(c, n) == c % n

\* nextServer = (nextServer + 1) % servers.size()
AdvanceCursor(c, n) == (c + 1) % n

\* a distributor that leaves the burst count as it was
ClearedCountKept(c) == c

\* newClientCount = 0 at the end of distributeNewClients
ClearedCount(c) == 0

\* the slot acceptNewClients stores the i-th accepted descriptor in
BufferSlot(i, count) == i

\* a fallback that forgets FreeBSD's EINVAL
Accept4UnsupportedEnosysOnly(e) == e = "ENOSYS"

\* errno values that downgrade accept4Available
Accept4Unsupported(e) == e \in {"ENOSYS", "EINVAL"}

\* a test that knows only one of the two names of the would-block errno
WouldBlockOtherNameOnly(e) == e = "EWOULDBLOCK"

\* the errno values that end a burst without cooldown
WouldBlock(e) == e \in {"EAGAIN", "EWOULDBLOCK"}

\* acceptNewClients' return value
BurstResult(error, errcode) == ~(error /\ ~WouldBlock(errcode))

\* a loop that services the endpoints before it looks at the exit pipe
ExitPipeSignaledIgnored(rev) == FALSE

\* pollers[0].revents & POLLIN in mainLoop
ExitPipeSignaled(rev) == rev[0]

Range(s) == { s[k] : k \in 1..Len(s) }

Min(a, b) == IF a < b THEN a ELSE b

Workers == 0 .. (servers - 1)

\* listen() calls of the registry's specification: one past the capacity
MaxRegistrations == SERVER_KIT_MAX_SERVER_ENDPOINTS + 1

\* the listening sockets a controller may register
Fds == 1 .. MaxRegistrations

\* the history starts empty
NoHistory ==
    [ accepted |-> {},        \* connections a raw accept call has returned
      closed |-> {},          \* connections the core has closed
      log |-> << >>,          \* every handoff <<worker, connection>>, in order
      iterBuffered |-> {},    \* connections the bursts of this iteration returned
      iterDispatched |-> {},  \* connections this iteration's distribute enqueued
      iterBursts |-> 0,       \* bursts run in this iteration
      iterOk |-> TRUE,        \* every burst of this iteration returned true
      iterOrder |-> << >>,    \* the endpoint indices this iteration serviced, in order
      iterCooldowns |-> 0,    \* cooldown waits of this iteration
      burstAccepted |-> 0,    \* connections the last finished burst returned
      burstFlag |-> TRUE,     \* accept4Available when the last burst began
      calls |-> << >>,        \* the last burst's system calls and their results
      ctlObserved |-> FALSE,  \* the running thread has seen the exit pipe readable
      ctlAccess |-> {},       \* members shutdown() has read or written since start()
      pollFailed |-> FALSE,   \* the running thread's primary poll has failed
      recovered |-> FALSE,    \* a cooldown wait has ended with the exit pipe silent
      late |-> {},            \* connections that arrived after such a cooldown
      cursor0 |-> 0 ]         \* nextServer as construction left it

(* ---- the state ---- *)

Positions == {"none", "while", "wait", "woken", "scan", "burst", "cooldown",
              "distribute", "exited", "died", "crashed"}

\* the fields of AcceptLoadBalancer and what the model adds to them
TypeOK ==
    /\ endpoints \in [0 .. (SERVER_KIT_MAX_SERVER_ENDPOINTS - 1) -> 0 .. MaxRegistrations]
    /\ revents \in [0 .. SERVER_KIT_MAX_SERVER_ENDPOINTS -> BOOLEAN]
    /\ newClients \in [0 .. (ACCEPT_BURST_COUNT - 1) -> 0 .. nArrived]
    /\ nEndpoints \in 0 .. (2 ^ NEndpointsBits - 1)
    /\ accept4Available \in BOOLEAN
    /\ quit \in BOOLEAN
    /\ newClientCount \in 0 .. (2 ^ NewClientCountBits - 1)
    /\ nextServer \in Nat
    /\ exitPipe \in 0 .. MaxStarts
    /\ thread \in BOOLEAN
    /\ servers \in 0 .. MaxServers
    /\ pc \in Positions
    /\ scanIdx \in 0 .. SERVER_KIT_MAX_SERVER_ENDPOINTS
    /\ ctl \in {"ready", "joining", "noop"}
    /\ \A fd \in Fds : \A k \in 1 .. Len(pending[fd]) : pending[fd][k] \in 1 .. nArrived
    /\ \A w \in DOMAIN queues : \A k \in 1 .. Len(queues[w]) : queues[w][k] \in 1 .. nArrived
    /\ accept4Errno \in {"none", "ENOSYS", "EINVAL"}

(* ---- construction ---- *)

\* AcceptLoadBalancer(): nEndpoints(0), accept4Available(true), quit(false),
\* newClientCount(0), thread(NULL); nextServer has no initializer, so its
\* value is indeterminate.  The arrays are not read before they are written.
Init ==
    /\ endpoints = [k \in 0 .. (SERVER_KIT_MAX_SERVER_ENDPOINTS - 1) |-> 0]
    /\ revents = [k \in 0 .. SERVER_KIT_MAX_SERVER_ENDPOINTS |-> FALSE]
    /\ newClients = [k \in 0 .. (ACCEPT_BURST_COUNT - 1) |-> 0]
    /\ nEndpoints = 0
    /\ accept4Available = TRUE
    /\ quit = FALSE
    /\ newClientCount = 0
    /\ nextServer \in 0 .. MaxServers
    /\ exitPipe = 0
    /\ thread = FALSE
    /\ servers = 0
    /\ pc = "none"
    /\ scanIdx = 0
    /\ ctl = "ready"
    /\ pending = [fd \in Fds |-> << >>]
    /\ queues = [w \in 0 .. (MaxServers - 1) |-> << >>]
    /\ accept4Errno \in {"none", "ENOSYS", "EINVAL"}
    /\ listenCalls = 0
    /\ arrivals = 0
    /\ nArrived = 0
    /\ faults = 0
    /\ starts = 0
    /\ hist = [NoHistory EXCEPT !.cursor0 = nextServer]

(* ---- the controller thread ---- *)

\* servers.push_back(server), before start()
AddServer ==
    /\ ctl = "ready" /\ ~thread /\ pc # "crashed"
    /\ starts = 0
    /\ servers < MaxServers
    /\ servers' = servers + 1
    /\ UNCHANGED << objVars, exitPipe, thread, pc, scanIdx, ctl,
                    pending, queues, envBudget, hist >>

\* listen(fd), the limit-th call at most: assert(nEndpoints <
\* SERVER_KIT_MAX_SERVER_ENDPOINTS), which aborts the process when it fails,
\* then endpoints[nEndpoints] = fd; nEndpoints++.  listenCalls counts the
\* calls that registered their descriptor.
ListenCall(limit) ==
    /\ ctl = "ready" /\ ~thread /\ pc # "crashed"
    /\ starts = 0
    /\ listenCalls < limit
    /\ IF nEndpoints < SERVER_KIT_MAX_SERVER_ENDPOINTS
       THEN /\ listenCalls' = listenCalls + 1
            /\ endpoints' = [endpoints EXCEPT ![nEndpoints] = listenCalls + 1]
            /\ nEndpoints' = IncrNEndpoints(nEndpoints)
            /\ UNCHANGED pc
       ELSE /\ pc' = "crashed"
            /\ UNCHANGED << listenCalls, endpoints, nEndpoints >>
    /\ UNCHANGED << revents, newClients, accept4Available, quit, newClientCount,
                    nextServer, exitPipe, thread, servers, scanIdx,
                    ctl, pending, queues, arrivals, nArrived, faults, starts,
                    accept4Errno, hist >>

Listen == ListenCall(MaxListenCalls)

\* a start() that clears quit for the new thread
StartResetsQuit ==
    /\ ctl = "ready" /\ ~thread /\ pc # "crashed"
    /\ servers >= 1
    /\ starts < MaxStarts
    /\ starts' = starts + 1
    /\ thread' = TRUE
    /\ quit' = FALSE
    /\ pc' = "while"
    /\ hist' = [hist EXCEPT !.ctlObserved = FALSE, !.pollFailed = FALSE,
                            !.ctlAccess = {}]
    /\ UNCHANGED << endpoints, revents, newClients, nEndpoints, accept4Available,
                    newClientCount, nextServer, exitPipe, servers, scanIdx, ctl,
                    pending, queues, listenCalls, arrivals, nArrived, faults,
                    accept4Errno >>

\* start(): thread = new oxt::thread(mainLoop)
Start ==
    /\ ctl = "ready" /\ ~thread /\ pc # "crashed"
    /\ servers >= 1
    /\ starts < MaxStarts
    /\ starts' = starts + 1
    /\ thread' = TRUE
    /\ pc' = "while"
    /\ hist' = [hist EXCEPT !.ctlObserved = FALSE, !.pollFailed = FALSE,
                            !.ctlAccess = {}]
    /\ UNCHANGED << objVars, exitPipe, servers, scanIdx, ctl,
                    pending, queues, listenCalls, arrivals, nArrived, faults,
                    accept4Errno >>

\* a shutdown() that takes every thread handle for a started thread
ThreadStartedAlways(t) == TRUE

\* shutdown(): if (thread != NULL)
ThreadStarted(t) == t

\* a shutdown() that raises the quit flag itself before it signals the pipe
ShutdownWriteSetsQuit ==
    /\ ctl = "ready" /\ ThreadStarted(thread) /\ pc # "crashed"
    /\ quit' = TRUE
    /\ exitPipe' = exitPipe + 1
    /\ ctl' = "joining"
    /\ hist' = [hist EXCEPT !.ctlAccess = @ \cup {"thread", "quit", "exitPipe[1]"}]
    /\ UNCHANGED << endpoints, revents, newClients, nEndpoints, accept4Available,
                    newClientCount, nextServer, thread, servers, pc, scanIdx,
                    pending, queues, envBudget >>

\* shutdown() with thread != NULL: write(exitPipe[1], "x", 1), then join
ShutdownWrite ==
    /\ ctl = "ready" /\ ThreadStarted(thread) /\ pc # "crashed"
    /\ exitPipe' = exitPipe + 1
    /\ ctl' = "joining"
    /\ hist' = [hist EXCEPT !.ctlAccess = @ \cup {"thread", "exitPipe[1]"}]
    /\ UNCHANGED << objVars, thread, servers, pc, scanIdx,
                    pending, queues, envBudget >>

\* shutdown() with thread == NULL: the if is skipped, nothing is written or
\* joined; the call is inside shutdown() until it returns
ShutdownNoop ==
    /\ ctl = "ready" /\ ~ThreadStarted(thread) /\ pc # "crashed"
    /\ ctl' = "noop"
    /\ hist' = [hist EXCEPT !.ctlAccess = @ \cup {"thread"}]
    /\ UNCHANGED << objVars, exitPipe, thread, servers, pc, scanIdx,
                    pending, queues, envBudget >>

\* the return of a shutdown() that found thread == NULL
ShutdownReturn ==
    /\ ctl = "noop"
    /\ ctl' = "ready"
    /\ UNCHANGED << objVars, exitPipe, thread, servers, pc, scanIdx,
                    pending, queues, envBudget, hist >>

\* a thread has ended when mainLoop has returned, and also when an exception
\* has left it (oxt::thread: the thread ends abnormally and can be joined)
ThreadEnded(p) == p \in {"exited", "died"}

\* thread->join() returns once the thread has ended; delete thread; thread = NULL
ShutdownJoin ==
    /\ ctl = "joining"
    /\ ThreadEnded(pc)
    /\ thread' = FALSE
    /\ ctl' = "ready"
    /\ pc' = "none"
    /\ hist' = [hist EXCEPT !.ctlAccess = @ \cup {"thread"}]
    /\ UNCHANGED << objVars, exitPipe, servers, scanIdx,
                    pending, queues, envBudget >>

(* ---- the kernel: connections arriving on a listening socket ---- *)

Arrive(fd, n) ==
    /\ fd <= listenCalls
    /\ arrivals < MaxArrivalEvents
    /\ arrivals' = arrivals + 1
    /\ nArrived' = nArrived + n
    /\ pending' = [pending EXCEPT
                     ![fd] = @ \o [k \in 1 .. n |-> nArrived + k]]
    /\ hist' = [hist EXCEPT !.late = IF hist.recovered
                                     THEN @ \cup (nArrived + 1) .. (nArrived + n)
                                     ELSE @]
    /\ UNCHANGED << objVars, exitPipe, thread, servers, pc, scanIdx,
                    ctl, queues, listenCalls, faults, starts, accept4Errno >>

(* ---- the loop thread: mainLoop ---- *)

\* endpoint k is polled as pollers[k + 1]
Readable(k) == pending[endpoints[k]] # << >>
PolledEndpoints == 0 .. (nEndpoints - 1)

\* while (!quit)
WhileTest ==
    /\ pc = "while"
    /\ pc' = IF quit THEN "exited" ELSE "wait"
    /\ UNCHANGED << objVars, exitPipe, thread, servers, scanIdx, ctl,
                    pending, queues, envBudget, hist >>

NewIteration ==
    [hist EXCEPT !.iterBuffered = {}, !.iterDispatched = {},
                 !.iterBursts = 0, !.iterOk = TRUE,
                 !.iterOrder = << >>, !.iterCooldowns = 0]

\* pollAllEndpoints(): poll(pollers, nEndpoints + 1, -1) returns the sources
\* that are readable; it blocks while none is
PollReturn ==
    /\ pc = "wait"
    /\ exitPipe > 0 \/ \E k \in PolledEndpoints : Readable(k)
    /\ revents' = [k \in DOMAIN revents |->
                     IF k = 0 THEN exitPipe > 0
                     ELSE IF k <= nEndpoints THEN Readable(k - 1)
                     ELSE revents[k]]
    /\ pc' = "woken"
    /\ hist' = NewIteration
    /\ UNCHANGED << endpoints, newClients, nEndpoints, accept4Available, quit,
                    newClientCount, nextServer, exitPipe, thread, servers,
                    scanIdx, ctl, pending, queues, envBudget >>

\* poll() returns with no POLLIN bit set anywhere (only POLLERR, POLLHUP, ...)
PollNoInput ==
    /\ pc = "wait"
    /\ exitPipe = 0 /\ \A k \in PolledEndpoints : ~Readable(k)
    /\ faults < MaxFaults
    /\ faults' = faults + 1
    /\ revents' = [k \in DOMAIN revents |->
                     IF k <= nEndpoints THEN FALSE ELSE revents[k]]
    /\ pc' = "woken"
    /\ hist' = NewIteration
    /\ UNCHANGED << endpoints, newClients, nEndpoints, accept4Available, quit,
                    newClientCount, nextServer, exitPipe, thread, servers,
                    scanIdx, ctl, pending, queues,
                    listenCalls, arrivals, nArrived, starts, accept4Errno >>

\* a loop that polls again after a failed poll
PollFailRetried ==
    /\ pc = "wait"
    /\ faults < MaxFaults
    /\ faults' = faults + 1
    /\ pc' = "wait"
    /\ hist' = [hist EXCEPT !.pollFailed = TRUE]
    /\ UNCHANGED << objVars, exitPipe, thread, servers, scanIdx, ctl,
                    pending, queues, listenCalls, arrivals, nArrived, starts, accept4Errno >>

\* poll() == -1: SystemException leaves mainLoop and the thread ends
PollFail ==
    /\ pc = "wait"
    /\ faults < MaxFaults
    /\ faults' = faults + 1
    /\ pc' = "died"
    /\ hist' = [hist EXCEPT !.pollFailed = TRUE]
    /\ UNCHANGED << objVars, exitPipe, thread, servers, scanIdx, ctl,
                    pending, queues, listenCalls, arrivals, nArrived, starts, accept4Errno >>

\* if (pollers[0].revents & POLLIN) { quit = true; break; }
CheckExitPipe ==
    /\ pc = "woken"
    /\ IF ExitPipeSignaled(revents)
       THEN /\ quit' = TRUE
            /\ pc' = "exited"
            /\ hist' = [hist EXCEPT !.ctlObserved = TRUE]
            /\ UNCHANGED scanIdx
       ELSE /\ pc' = "scan"
            /\ scanIdx' = 0
            /\ UNCHANGED << quit, hist >>
    /\ UNCHANGED << endpoints, revents, newClients, nEndpoints, accept4Available,
                    newClientCount, nextServer, exitPipe, thread, servers, ctl, pending, queues, envBudget >>

\* a scan that runs from the last endpoint down
LastReady(ready) == CHOOSE k \in ready : \A j \in ready : k >= j

\* the for loop of mainLoop counts i upwards: the readable endpoint it
\* reaches next is the one with the least index
FirstReady(ready) == CHOOSE k \in ready : \A j \in ready : k <= j

\* for (i = 0; i < nEndpoints; i++) if (pollers[i + 1].revents & POLLIN) ...:
\* move on to the next endpoint reported readable, or leave the scan
ScanEndpoints ==
    /\ pc = "scan"
    /\ LET ready == { k \in PolledEndpoints : k >= scanIdx /\ revents[k + 1] }
       IN  IF ready = {}
           THEN /\ pc' = "distribute"
                /\ UNCHANGED scanIdx
           ELSE /\ pc' = "burst"
                /\ scanIdx' = FirstReady(ready)
    /\ UNCHANGED << objVars, exitPipe, thread, servers, ctl,
                    pending, queues, envBudget, hist >>

\* a scan that goes on to the next endpoint after a failed burst
ScanContinuesAlways(ok) == TRUE

\* mainLoop: if (!acceptNewClients(endpoints[i])) break;
ScanContinues(ok) == ok

\* what one accept call does: the descriptor returned (-1 on failure), errno,
\* the backlog left, the capability flag, the descriptors closed, the
\* primitives invoked with their results, and whether the fault was injected
Outcome(fd, e, q, a4, closed, calls, fired) ==
    [fd |-> fd, errno |-> e, q |-> q, a4 |-> a4, closed |-> closed,
     calls |-> calls, fired |-> fired]

\* a fallback that returns the descriptor its guard has closed
PlainAcceptReturnsClosed(q, inject, before) ==
    IF inject = "EMFILE"
    THEN Outcome(-1, "EMFILE", q, FALSE, {},
                 before \o << <<"accept", "EMFILE">> >>, TRUE)
    ELSE IF q = << >>
    THEN Outcome(-1, "EAGAIN", q, FALSE, {},
                 before \o << <<"accept", "EAGAIN">> >>, FALSE)
    ELSE IF inject = "setNonBlocking"
    THEN Outcome(Head(q), "EBADF", Tail(q), FALSE, {Head(q)},
                 before \o << <<"accept", "ok">>, <<"setNonBlocking", "EBADF">>,
                              <<"close", "ok">> >>, TRUE)
    ELSE Outcome(Head(q), "none", Tail(q), FALSE, {},
                 before \o << <<"accept", "ok">>, <<"setNonBlocking", "ok">> >>,
                 FALSE)

\* the else branch of acceptNonBlockingSocket: accept(), then setNonBlocking();
\* a descriptor whose setNonBlocking throws is closed by its FdGuard and the
\* call returns -1 with errno = e.code()
PlainAccept(q, inject, before) ==
    IF inject = "EMFILE"
    THEN Outcome(-1, "EMFILE", q, FALSE, {},
                 before \o << <<"accept", "EMFILE">> >>, TRUE)
    ELSE IF q = << >>
    THEN Outcome(-1, "EAGAIN", q, FALSE, {},
                 before \o << <<"accept", "EAGAIN">> >>, FALSE)
    ELSE IF inject = "setNonBlocking"
    THEN Outcome(-1, "EBADF", Tail(q), FALSE, {Head(q)},
                 before \o << <<"accept", "ok">>, <<"setNonBlocking", "EBADF">>,
                              <<"close", "ok">> >>, TRUE)
    ELSE Outcome(Head(q), "none", Tail(q), FALSE, {},
                 before \o << <<"accept", "ok">>, <<"setNonBlocking", "ok">> >>,
                 FALSE)

\* callAccept4(serverFd, ..., O_NONBLOCK); a kernel without accept4(), or one
\* that rejects its flags, fails every call with accept4Errno
CallAccept4(q, inject) ==
    IF accept4Errno # "none"
    THEN Outcome(-1, accept4Errno, q, TRUE, {},
                 << <<"accept4", accept4Errno>> >>, FALSE)
    ELSE IF inject = "EMFILE"
    THEN Outcome(-1, "EMFILE", q, TRUE, {}, << <<"accept4", "EMFILE">> >>, TRUE)
    ELSE IF q = << >>
    THEN Outcome(-1, "EAGAIN", q, TRUE, {}, << <<"accept4", "EAGAIN">> >>, FALSE)
    ELSE Outcome(Head(q), "none", Tail(q), TRUE, {},
                 << <<"accept4", "ok">> >>, FALSE)

\* acceptNonBlockingSocket(serverFd) with the capability flag a4
AcceptNonBlockingSocket(q, a4, inject) ==
    IF a4
    THEN LET r == CallAccept4(q, inject) IN
         IF r.fd = -1 /\ Accept4Unsupported(r.errno)
         THEN PlainAccept(q, inject, r.calls)
         ELSE r
    ELSE PlainAccept(q, inject, << >>)

\* acceptNewClients' locals and what the burst has done, before its for loop
BurstStart ==
    [i |-> 0, error |-> FALSE, errcode |-> "none", done |-> FALSE,
     q |-> pending[endpoints[scanIdx]], buf |-> newClients,
     a4 |-> accept4Available, closed |-> {}, calls |-> << >>, fired |-> FALSE]

\* one pass of acceptNewClients' for loop: the test i < ACCEPT_BURST_COUNT,
\* then fd = acceptNonBlockingSocket(endpoint), break on -1, newClients[i] = fd.
\* The fault (if any) is injected into the accept call made at index faultAt.
ForBody(b, faultAt, kind) ==
    IF b.i >= ACCEPT_BURST_COUNT
    THEN [b EXCEPT !.done = TRUE]
    ELSE LET r == AcceptNonBlockingSocket(b.q, b.a4,
                      IF b.i = faultAt THEN kind ELSE "none")
         IN  IF r.fd = -1
             THEN [b EXCEPT !.done = TRUE, !.error = TRUE, !.errcode = r.errno,
                            !.q = r.q, !.a4 = r.a4,
                            !.closed = @ \cup r.closed,
                            !.calls = @ \o r.calls,
                            !.fired = @ \/ r.fired]
             ELSE [b EXCEPT !.i = @ + 1, !.q = r.q, !.a4 = r.a4,
                            !.buf[BufferSlot(b.i, newClientCount)] = r.fd,
                            !.closed = @ \cup r.closed,
                            !.calls = @ \o r.calls,
                            !.fired = @ \/ r.fired]

\* the for loop of acceptNewClients, run until it is left
RECURSIVE BurstLoop(_, _, _)
BurstLoop(b, faultAt, kind) ==
    CHOOSE r \in { IF x.done THEN x
                   ELSE BurstLoop(ForBody(x, faultAt, kind), faultAt, kind) :
                   x \in {b} } : TRUE

FaultKinds == {"EMFILE", "setNonBlocking"}

\* acceptNewClients(endpoints[scanIdx]) up to its cooldown wait
AcceptNewClients ==
    /\ pc = "burst"
    /\ \E faultAt \in -1 .. MaxFaultAt, kind \in FaultKinds :
         \E b \in { BurstLoop(BurstStart, faultAt, kind) } :
         LET fd == endpoints[scanIdx]
             got == { b.buf[k] : k \in 0 .. (b.i - 1) }
             ok == BurstResult(b.error, b.errcode)
         IN  /\ IF faultAt = -1
                THEN kind = "EMFILE" /\ UNCHANGED faults
                ELSE b.fired /\ faults < MaxFaults /\ faults' = faults + 1
             /\ newClients' = b.buf
             /\ pending' = [pending EXCEPT ![fd] = b.q]
             /\ accept4Available' = b.a4
             /\ newClientCount' = StoreNewClientCount(b.i)
             /\ hist' = [hist EXCEPT !.accepted = @ \cup got \cup b.closed,
                                     !.closed = @ \cup b.closed,
                                     !.iterBuffered = @ \cup got,
                                     !.iterBursts = @ + 1,
                                     !.iterOrder = Append(@, scanIdx),
                                     !.iterOk = @ /\ ok,
                                     !.burstAccepted = b.i,
                                     !.burstFlag = accept4Available,
                                     !.calls = b.calls]
             /\ IF ~ok
                THEN pc' = "cooldown" /\ UNCHANGED scanIdx
                ELSE IF ScanContinues(TRUE)
                THEN pc' = "scan" /\ scanIdx' = scanIdx + 1
                ELSE pc' = "distribute" /\ UNCHANGED scanIdx
    /\ UNCHANGED << endpoints, revents, nEndpoints, quit, nextServer, exitPipe,
                    thread, servers, ctl, queues,
                    listenCalls, arrivals, nArrived, starts, accept4Errno >>

\* the cooldown in acceptNewClients: poll(pollers, 1, 3) on the exit pipe
\* alone, quit = true if it is readable, then return false
Cooldown ==
    /\ pc = "cooldown"
    /\ revents' = [revents EXCEPT ![0] = exitPipe > 0]
    /\ quit' = (quit \/ exitPipe > 0)
    /\ hist' = [hist EXCEPT !.ctlObserved = @ \/ exitPipe > 0,
                            !.recovered = @ \/ exitPipe = 0,
                            !.iterCooldowns = @ + 1]
    /\ IF ScanContinues(FALSE)
       THEN pc' = "scan" /\ scanIdx' = scanIdx + 1
       ELSE pc' = "distribute" /\ UNCHANGED scanIdx
    /\ UNCHANGED << endpoints, newClients, nEndpoints, accept4Available,
                    newClientCount, nextServer, exitPipe, thread, servers, ctl, pending, queues, envBudget >>

(* ---- distributeNewClients ---- *)

\* the cursor after k handoffs
RECURSIVE CursorAfter(_, _, _)
CursorAfter(c, k, n) ==
    IF k = 0 THEN c ELSE CursorAfter(AdvanceCursor(c, n), k - 1, n)

\* the handoffs of one call, <<worker, connection>> in buffer order; first is
\* the worker that servers[nextServer] yields for the first handoff
Handoffs(first) ==
    [k \in 1 .. newClientCount |->
        << IF k = 1 THEN first ELSE CursorAfter(nextServer, k - 1, servers),
           newClients[k - 1] >>]

RECURSIVE ConnsFor(_, _)
ConnsFor(w, hs) ==
    IF hs = << >> THEN << >>
    ELSE (IF Head(hs)[1] = w THEN << Head(hs)[2] >> ELSE << >>)
         \o ConnsFor(w, Tail(hs))

\* runLater(feedNewClient, servers[nextServer], newClients[i]) for every i <
\* newClientCount, then newClientCount = 0
Deliver(first) ==
    LET hs == Handoffs(first) IN
    /\ queues' = [w \in DOMAIN queues |-> queues[w] \o ConnsFor(w, hs)]
    /\ nextServer' = CursorAfter(nextServer, newClientCount, servers)
    /\ newClientCount' = ClearedCount(newClientCount)
    /\ hist' = [hist EXCEPT !.log = @ \o hs,
                            !.iterDispatched = { hs[k][2] : k \in 1 .. Len(hs) }]
    /\ pc' = "while"

DistributeNewClients ==
    /\ pc = "distribute"
    /\ IF newClientCount = 0 \/ nextServer < servers
       THEN Deliver(nextServer)
       ELSE \* servers[nextServer] is read past the end of the vector: the
            \* process dies on the wild pointer, or the word read happens to
            \* be one of the workers
            \/ \E w \in Workers : Deliver(w)
            \/ /\ pc' = "crashed"
               /\ UNCHANGED << queues, nextServer, newClientCount, hist >>
    /\ UNCHANGED << endpoints, revents, newClients, nEndpoints, accept4Available,
                    quit, exitPipe, thread, servers, scanIdx, ctl,
                    pending, envBudget >>

(* ---- the specifications ---- *)

Controller ==
    \/ AddServer
    \/ Listen
    \/ Start
    \/ ShutdownWrite
    \/ ShutdownNoop
    \/ ShutdownReturn
    \/ ShutdownJoin

Kernel == \E fd \in Fds, n \in ArrivalBatches : Arrive(fd, n)

LoopThread ==
    \/ WhileTest
    \/ PollReturn
    \/ PollNoInput
    \/ PollFail
    \/ CheckExitPipe
    \/ ScanEndpoints
    \/ AcceptNewClients
    \/ Cooldown
    \/ DistributeNewClients

Next == Controller \/ Kernel \/ LoopThread

Spec == Init /\ [][Next]_vars

\* the loop thread and a controller blocked in join() are scheduled fairly
LiveSpec == Spec /\ WF_vars(LoopThread) /\ WF_vars(ShutdownJoin)

\* the endpoint registry: listen() called up to one time more than the
\* capacity, then start() and the loop's primary wait
ListenToCapacity == ListenCall(MaxRegistrations)

RegistryNext ==
    \/ ListenToCapacity
    \/ AddServer
    \/ Start
    \/ Kernel
    \/ WhileTest
    \/ PollReturn

RegistrySpec == Init /\ [][RegistryNext]_vars

(* ---- properties ---- *)

Dispatched == { hist.log[k][2] : k \in 1 .. Len(hist.log) }

\* a burst has returned in the current iteration and its count is still stored
BurstReturned == pc \in {"scan", "cooldown", "distribute"} /\ hist.iterBursts >= 1

\* the step that runs acceptNewClients' burst
BurstStep == pc = "burst" /\ pc' # "burst"

\* C1: whenever the loop thread enters the primary wait, and when the loop has
\* exited, every connection an accept call has returned so far has been
\* enqueued onto a worker or closed by the core.
C1_NoneLeftUndispatched ==
    pc \in {"wait", "exited"} => hist.accepted \subseteq (Dispatched \cup hist.closed)

\* C2: after an iteration in which two or more endpoints were serviced and
\* every burst succeeded, the connections its distributeNewClients call
\* enqueued are exactly those the bursts of the iteration accepted.
C2_DispatchesUnionOfBursts ==
    (pc = "while" /\ hist.iterBursts >= 2 /\ hist.iterOk)
        => hist.iterDispatched = hist.iterBuffered

\* C3: after acceptNewClients returns, newClientCount equals the number of
\* connections the burst accepted, for every number 0..16.
C3_StoredCountIsAccepted ==
    BurstReturned => newClientCount = hist.burstAccepted

\* C4: no connection is handed to a worker more than once, and outside an
\* iteration's accept-and-distribute part (so after every distributeNewClients
\* call) the burst count is 0.
C4_NoDoubleDispatch ==
    /\ \A j, k \in 1 .. Len(hist.log) : hist.log[j][2] = hist.log[k][2] => j = k
    /\ pc \in {"none", "while", "wait", "woken", "exited", "died"}
          => newClientCount = 0

C4_Witness ==
    /\ pc = "while"
    /\ ~hist.iterOk
    /\ hist.iterBuffered = {}
    /\ Len(hist.log) >= 1

\* C5: when the cursor starts at 0, the k-th connection delivered (0-indexed)
\* goes to worker k mod N, and each worker's queue holds exactly the
\* connections delivered to it, in delivery order.
C5_RoundRobin ==
    hist.cursor0 = 0 =>
        /\ \A k \in 1 .. Len(hist.log) : hist.log[k][1] = (k - 1) % servers
        /\ \A w \in Workers : queues[w] = ConnsFor(w, hist.log)

C5_Witness ==
    /\ hist.cursor0 = 0
    /\ servers >= 2
    /\ hist.iterDispatched # {}
    /\ Len(hist.log) > Cardinality(hist.iterDispatched)
    /\ Len(queues[0]) >= 1 /\ Len(queues[1]) >= 1

\* C6: once workers are registered the cursor is a valid index into servers,
\* from construction onward.
C6_CursorInRange ==
    servers >= 1 => (0 <= nextServer /\ nextServer < servers)

\* C7: a shutdown() that has written its byte and waits in join() eventually
\* returns.
C7_ShutdownReturns == (ctl = "joining") ~> (ctl = "ready")

\* C8: once quit is set no burst of accept calls is run any more.
C8_NoAcceptAfterQuit == [][quit => ~BurstStep]_vars

C8_Witness ==
    /\ quit
    /\ pc = "distribute"
    /\ \E k \in PolledEndpoints : k > scanIdx /\ revents[k + 1]

\* C9: the step that follows a primary wait reporting the exit pipe readable
\* sets quit and leaves the loop, and neither accepts nor dispatches.
C9_ControlPriority ==
    [][(pc = "woken" /\ revents[0] /\ pc' # "woken")
          => /\ quit' /\ pc' = "exited"
             /\ pending' = pending /\ queues' = queues
             /\ hist'.accepted = hist.accepted /\ hist'.log = hist.log
             /\ hist'.iterBursts = 0]_vars

C9_Witness ==
    /\ pc = "exited"
    /\ quit
    /\ hist.iterBursts = 0
    /\ \E k \in PolledEndpoints : revents[k + 1] /\ Readable(k)

\* the calls of callAccept4 in a burst's calls that failed as unsupported
UnsupportedAt(calls) ==
    { j \in 1 .. Len(calls) :
        calls[j][1] = "accept4" /\ calls[j][2] \in {"ENOSYS", "EINVAL"} }

\* C10: accept4Available starts true, a burst clears it exactly when one of
\* its callAccept4 calls fails with ENOSYS or EINVAL, no step sets it back to
\* true, and no accept4 is called after the failing call or in a burst that
\* began with the flag false.
C10_FlagMonotonic ==
    /\ accept4Available = TRUE
    /\ [][/\ accept4Available' => accept4Available
          /\ BurstStep =>
               LET calls == hist'.calls IN
               /\ (accept4Available /\ ~accept4Available')
                     <=> UnsupportedAt(calls) # {}
               /\ \A j \in UnsupportedAt(calls) : \A k \in 1 .. Len(calls) :
                     calls[k][1] = "accept4" => k <= j
               /\ ~accept4Available =>
                     \A k \in 1 .. Len(calls) : calls[k][1] # "accept4"]_vars

C10_Witness ==
    /\ ~accept4Available
    /\ ~hist.burstFlag
    /\ Len(hist.calls) >= 2

\* the descriptors the primary wait polls besides the exit pipe
PolledFds == { endpoints[k] : k \in PolledEndpoints }

\* C11: the stored endpoint count equals the number of listen() calls that
\* registered a descriptor and is at most SERVER_KIT_MAX_SERVER_ENDPOINTS, and
\* the loop's primary wait polls every registered descriptor.
C11_RegistryCapacity ==
    /\ nEndpoints = listenCalls
    /\ listenCalls <= SERVER_KIT_MAX_SERVER_ENDPOINTS
    /\ pc = "wait" => PolledFds = 1 .. listenCalls

\* no accept call of the burst failed for a reason other than an empty backlog
\* (an unsupported accept4 is retried inside acceptNonBlockingSocket)
NoAcceptFault(calls) ==
    \A k \in 1 .. Len(calls) : calls[k][2] \notin {"EMFILE", "EBADF"}

\* C12: a burst on an endpoint with M < 16 pending connections, none of whose
\* accept calls fails otherwise, accepts exactly the M connections in backlog
\* order, ends on EAGAIN, returns true (the scan goes on, no cooldown) and
\* leaves quit as it was.
C12_WouldBlockTermination ==
    [][(BurstStep /\ Len(pending[endpoints[scanIdx]]) < ACCEPT_BURST_COUNT
                  /\ NoAcceptFault(hist'.calls))
          => LET q == pending[endpoints[scanIdx]]
                 calls == hist'.calls
             IN  /\ hist'.burstAccepted = Len(q)
                 /\ newClientCount' = Len(q)
                 /\ \A k \in 1 .. Len(q) : newClients'[k - 1] = q[k]
                 /\ pending'[endpoints[scanIdx]] = << >>
                 /\ calls[Len(calls)][2] = "EAGAIN"
                 /\ hist'.iterOk = hist.iterOk
                 /\ pc' = "scan"
                 /\ quit' = quit]_vars

C12_Witness ==
    /\ pc = "scan"
    /\ hist.iterBursts >= 1
    /\ hist.burstAccepted = 2
    /\ newClientCount = 2
    /\ newClients[0] = 1 /\ newClients[1] = 2
    /\ hist.calls[Len(hist.calls)][2] = "EAGAIN"

\* no registered endpoint has a connection waiting
BacklogsEmpty == \A k \in PolledEndpoints : ~Readable(k)

\* C13: a cooldown wait during which the exit pipe stays silent leaves quit
\* false, and the connections that arrive after it are not lost: when the loop
\* is back in its primary wait with every backlog drained, each of them has
\* been enqueued onto a worker (or discarded by a failed setNonBlocking).
C13_CooldownRecovery ==
    /\ (pc = "distribute" /\ ~hist.iterOk /\ ~hist.ctlObserved) => ~quit
    /\ (pc = "wait" /\ BacklogsEmpty)
          => hist.late \subseteq (Dispatched \cup hist.closed)

\* everything but the controller's position is left as it was
OnlyCtlChanges ==
    UNCHANGED << objVars, exitPipe, thread, servers, pc, scanIdx,
                 pending, queues, envBudget >>

\* C14: a shutdown() called while no thread is started (never started, or
\* already shut down) writes nothing, joins nothing and changes no state, and
\* so does its return; a byte is written to the exit pipe only by a shutdown()
\* that finds a started thread, one byte per call, and only that call joins.
C14_ShutdownIdempotent ==
    [][/\ (ctl = "ready" /\ ctl' # "ready")
            => IF thread
               THEN /\ ctl' = "joining" /\ exitPipe' = exitPipe + 1
                    /\ UNCHANGED << objVars, thread >>
               ELSE ctl' = "noop" /\ OnlyCtlChanges
       /\ (ctl = "noop" /\ ctl' # "noop") => (ctl' = "ready" /\ OnlyCtlChanges)
       /\ exitPipe' # exitPipe => (thread /\ ctl' = "joining")
       /\ (thread /\ ~thread') => (ctl = "joining" /\ ctl' = "ready")]_vars

\* a second shutdown() after the first one has returned
C14_Witness ==
    /\ ctl = "noop"
    /\ starts >= 1
    /\ exitPipe = 1
    /\ ~thread

\* C15: the step in which the primary poll fails ends the loop thread; the
\* ended thread polls, accepts and dispatches nothing more; and a shutdown()
\* that joins it returns.
C15_PollFailureFatal ==
    /\ [][(hist'.pollFailed /\ ~hist.pollFailed) => pc' = "died"]_vars
    /\ [][pc = "died" => /\ pc' \in {"died", "none"}
                         /\ UNCHANGED << objVars, queues >>
                         /\ hist'.accepted = hist.accepted
                         /\ hist'.log = hist.log]_vars
    /\ (pc = "died" /\ ctl = "joining") ~> (ctl = "ready")

\* a shutdown() has returned from joining a thread that a failed poll ended
C15_Witness ==
    /\ hist.pollFailed
    /\ pc = "none" /\ ~thread /\ ctl = "ready"
    /\ exitPipe >= 1
    /\ ~quit

\* the connections the last burst left in the buffer before it failed
LastBurstConns == { newClients[k] : k \in 0 .. (hist.burstAccepted - 1) }

\* C16: a cooldown wait that finds the exit pipe readable sets quit and ends
\* the endpoint scan; the iteration's distributeNewClients call then enqueues
\* the connections the failing burst had accepted, and the loop exits at its
\* next test without polling again.
C16_CooldownQuit ==
    [][/\ (pc = "cooldown" /\ exitPipe > 0 /\ pc' # "cooldown")
            => (quit' /\ pc' = "distribute"
                /\ pending' = pending /\ hist'.iterBursts = hist.iterBursts)
       /\ (pc = "distribute" /\ quit /\ pc' # "distribute")
            => (pc' = "while" /\ hist'.iterDispatched = LastBurstConns
                /\ \A c \in LastBurstConns :
                      \E w \in Workers : c \in Range(queues'[w]))
       /\ (pc = "while" /\ quit /\ pc' # "while") => pc' = "exited"]_vars

\* the endpoints the last primary wait reported readable
ReportedReadable == { k \in PolledEndpoints : revents[k + 1] }

\* C17: the endpoints an iteration services are endpoints its poll reported
\* readable, taken in registration order and each at most once; when the scan
\* ends with every burst successful all of them were serviced; no burst
\* follows a burst that ended in cooldown, and an iteration has at most one
\* cooldown wait.
C17_ScanOrder ==
    LET order == hist.iterOrder IN
    /\ \A j, k \in 1 .. Len(order) : j < k => order[j] < order[k]
    /\ pc \in {"scan", "burst", "cooldown", "distribute"}
          => Range(order) \subseteq ReportedReadable
    /\ (pc = "distribute" /\ hist.iterOk) => Range(order) = ReportedReadable
    /\ pc = "burst" => hist.iterOk
    /\ hist.iterCooldowns <= 1
    /\ hist.iterCooldowns = 1 => (~hist.iterOk /\ pc # "scan")

\* the first endpoint's burst ended in cooldown and the second, reported
\* readable, was left unserviced
C17_Witness ==
    /\ pc = "distribute"
    /\ hist.iterCooldowns = 1
    /\ hist.iterOrder = << 0 >>
    /\ 1 \in ReportedReadable

\* the burst's calls end with a setNonBlocking failure and the guard's close
EndsInSetNonBlockingFailure(calls) ==
    /\ Len(calls) >= 3
    /\ calls[Len(calls) - 2] = << "accept", "ok" >>
    /\ calls[Len(calls) - 1][1] = "setNonBlocking"
    /\ calls[Len(calls) - 1][2] # "ok"
    /\ calls[Len(calls)] = << "close", "ok" >>

\* C18: a connection whose setNonBlocking fails on the accept() fallback is
\* closed, is never in the burst buffer and never dispatched; the failed call
\* ends the burst as a failed accept (the burst goes to its cooldown) and the
\* loop thread lives on.
C18_SetNonBlockingFailure ==
    /\ [](\A c \in hist.closed :
            /\ c \notin Dispatched
            /\ \A k \in DOMAIN newClients : newClients[k] # c)
    /\ [][(BurstStep /\ hist'.closed # hist.closed)
            => LET q == pending[endpoints[scanIdx]]
                   n == hist'.burstAccepted
               IN  /\ ~accept4Available'
                   /\ EndsInSetNonBlockingFailure(hist'.calls)
                   /\ n < Len(q)
                   /\ hist'.closed = hist.closed \cup { q[n + 1] }
                   /\ pending'[endpoints[scanIdx]] = SubSeq(q, n + 2, Len(q))
                   /\ newClientCount' = n
                   /\ ~hist'.iterOk
                   /\ pc' = "cooldown"]_vars
    /\ [][(pc = "cooldown" /\ pc' # "cooldown") => pc' = "distribute"]_vars

\* the loop is back in its primary wait after a setNonBlocking failure
C18_Witness ==
    /\ hist.closed # {}
    /\ ~accept4Available
    /\ pc = "wait"
    /\ hist.iterCooldowns = 1

\* the members the loop thread works with
LoopFields == << newClients, newClientCount, nextServer, accept4Available, quit >>

\* C19: a step of shutdown() reads and writes only the thread handle and the
\* exit pipe's write end and leaves the burst buffer, the burst count, the
\* cursor, the capability flag and quit as they are; once the thread is
\* started these change only in steps of the loop thread.
C19_ThreadConfinement ==
    [][/\ ctl' # ctl
            => /\ UNCHANGED LoopFields
               /\ hist'.ctlAccess \subseteq {"thread", "exitPipe[1]"}
       /\ (thread /\ LoopFields' # LoopFields)
            => /\ ctl' = ctl
               /\ pc \in {"woken", "burst", "cooldown", "distribute"}
               /\ pc' # pc]_vars

\* shutdown() has signalled the pipe while the loop holds an undistributed
\* burst
C19_Witness ==
    /\ ctl = "joining"
    /\ hist.ctlAccess = {"thread", "exitPipe[1]"}
    /\ pc = "distribute"
    /\ newClientCount >= 1
    /\ ~quit

\* C20: quit never goes back to false; it becomes true only in the loop
\* thread's step after a wait (primary or cooldown) that found the exit pipe
\* readable; a burst, failed or not, does not change it; and a loop started
\* after a completed shutdown() ends without a burst or a dispatch.
C20_QuitMonotonic ==
    /\ [][quit => quit']_vars
    /\ [][(~quit /\ quit')
            => /\ exitPipe > 0
               /\ \/ pc = "woken" /\ revents[0]
                  \/ pc = "cooldown"
               /\ hist'.ctlObserved]_vars
    /\ [][BurstStep => quit' = quit]_vars
    /\ [][(pc = "cooldown" /\ exitPipe = 0) => quit' = quit]_vars
    /\ [](starts >= 2 => pc \in {"none", "while", "wait", "woken", "exited", "died"})
    /\ [][starts >= 2 => /\ hist'.accepted = hist.accepted
                         /\ hist'.log = hist.log
                         /\ queues' = queues]_vars

\* a restarted loop has exited with a connection waiting on a polled endpoint
C20_Witness ==
    /\ starts = 2
    /\ pc = "exited"
    /\ quit
    /\ \E k \in PolledEndpoints : Readable(k)

====
